---- MODULE Spec2Model ----
(***************************************************************************)
(* zdb: the transaction coordinator (Begin, TX, the context-carried        *)
(* handle) and the query preparer (Prepare) of zgo.at/zdb.                  *)
(*                                                                         *)
(* src/zdb.go holds the public entry points (Begin, TX, Exec, Prepare,     *)
(* WithDB, GetDB, MustGetDB); the bodies they delegate to (beginImpl,      *)
(* txImpl, execImpl, prepareImpl, the zDB and zTX handles) are not part of *)
(* the sources at hand and are modelled from spec.md sections 4.1-4.3.     *)
(***************************************************************************)
EXTENDS Integers, Sequences, FiniteSets, TLC

(***************************************************************************)
(* Bounds of the model.                                                    *)
(***************************************************************************)
MaxTx == 2
MaxDepth == 2
MaxRows == 2
MaxPieces == 2    \* pieces of a query template
MaxNamed == 2     \* parameters of a Prepare call with named parameters only
MaxParams == 3    \* parameters of a Prepare call with a single-piece template
MaxArgs == 2      \* parameters of a Prepare call with positional parameters only
MaxElems == 2     \* elements of a slice
MaxConns == 2     \* connections of the pool
MaxParts == 3     \* dotted parts of a version

(***************************************************************************)
(* Errors.  nil is Go's nil error; ErrTransactionStarted is the sentinel   *)
(* of src/zdb.go:92.  An error wrapped by another is a different value.    *)
(***************************************************************************)
nil == "nil"
ErrTransactionStarted == "transaction already started"
ErrCommit == "commit failed"
ErrRollback == "rollback failed"
ErrTxDone == "sql: transaction has already been committed or rolled back"
ErrNotTx == "not a transaction"
ErrCanceled == "context canceled"
Errs == {"oh noes"}

(***************************************************************************)
(* Handles: 0 is the base handle (zDB, the pool); t in 1..MaxTx is the     *)
(* zTX handle that owns native transaction t.                              *)
(***************************************************************************)
BaseDB == 0
TxIds == 1..MaxTx
IsTX(h) == h \in TxIds

VARIABLES
  table,      \* rows visible through the base handle, in commit order
  txs,        \* native transactions: status, pending rows, who opened/resolved
  ctxs,       \* the contexts made so far: ctxs[c] is the handle context c carries
  stack,      \* the TX calls in progress, outermost first
  stmts,      \* stmts[r]: the transaction statement r was issued in (0: none)
  last,       \* the TX call that has just returned (depth 0: none has)
  lastBegin   \* the Begin call that has just returned (arg 0: none has)

txvars == <<table, txs, ctxs, stack, stmts, last, lastBegin>>

VARIABLES
  pieces,     \* the query template of the Prepare call, as the pieces it is made of
  params,     \* the parameters of the Prepare call
  driver,     \* the driver of the handle on the context
  res         \* what Prepare returned (done: it has returned)

prepvars == <<pieces, params, driver, res>>

VARIABLES
  cancelled,    \* the contexts that were cancelled
  conns,        \* the connections of the pool: who holds each, who ran on it
  lastResolve   \* the Commit or Rollback on a handle that has just returned

VARIABLES
  ver           \* the version of the server: what is asked of it, and the answer

envvars == <<cancelled, conns, lastResolve, ver>>

vars == <<txvars, prepvars, envvars>>

BaseCtx == 1

\* failedRan: a TX call nested in another ran a statement in the transaction
\* and then returned an error.
NoTx == [status |-> "unused", rows |-> <<>>, depths |-> {}, openedAt |-> 0,
         resolvedAt |-> 0, nres |-> 0, how |-> "none", failedRan |-> FALSE]
NoCall == [depth |-> 0, tx |-> 0, owner |-> FALSE, fnret |-> nil, ret |-> nil,
           clean |-> FALSE, nops |-> 0]
NoBegin == [arg |-> 0, ctx |-> 0, tx |-> 0, err |-> nil, opened |-> 0]
NoResolve == [h |-> 0, op |-> "none", err |-> nil, same |-> TRUE]

\* The connections of the pool, and the operations that run statements on
\* the base handle: no more of them have a statement in flight than there
\* are connections.  A connection nobody holds is idle: it is in the pool.
Conns == 1..MaxConns
Ops == 1..MaxConns
IdleConn == [owner |-> {}, ran |-> {}]

NumOpened == Cardinality({t \in TxIds : txs[t].status # "unused"})

\* A version is the sequence of its dotted parts.  op: the call that was
\* made ("none": none yet).
NoVersion == [have |-> <<>>, want |-> <<>>, driver |-> 0, op |-> "none",
              atLeast |-> FALSE, err |-> nil]

BaseInit ==
  /\ table = <<>>
  /\ txs = [t \in TxIds |-> NoTx]
  /\ ctxs = <<BaseDB>>
  /\ stack = <<>>
  /\ stmts = <<>>
  /\ last = NoCall
  /\ lastBegin = NoBegin
  /\ cancelled = {}
  /\ conns = [c \in Conns |-> IdleConn]
  /\ lastResolve = NoResolve

TxInit == BaseInit /\ ver = NoVersion

(***************************************************************************)
(* Prepare.  A query is a sequence of tokens: text, a named placeholder    *)
(* :id, a positional placeholder ? or $n, and the delimiters {{ and }} and *)
(* the ! of a conditional block {{:id fragment}} / {{:id! fragment}}.      *)
(***************************************************************************)
Tok(k, id, n) == [k |-> k, id |-> id, n |-> n]
Lit == Tok("text", "cond", 0)
Named(id) == Tok(":", id, 0)
Open == Tok("{{", "", 0)
Close == Tok("}}", "", 0)
Bang == Tok("!", "", 0)
Q == Tok("?", "", 0)
Dollar(n) == Tok("$", "", n)
Num(n) == Tok("number", "", n)      \* a number written into the query

\* The pieces templates are made of, and their tokens.
Pieces == {"cond", ":x", ":y", "{{:x cond}}", "{{:x! cond}}", "{{:y :x}}"}

Tokens(p) ==
  CASE p = "cond" -> <<Lit>>
    [] p = ":x" -> <<Named("x")>>
    [] p = ":y" -> <<Named("y")>>
    [] p = "{{:x cond}}" -> <<Open, Named("x"), Lit, Close>>
    [] p = "{{:x! cond}}" -> <<Open, Named("x"), Bang, Lit, Close>>
    [] p = "{{:y :x}}" -> <<Open, Named("y"), Named("x"), Close>>
    [] p = "{{cond}}" -> <<Open, Lit, Close>>
    [] p = "{{:x cond" -> <<Open, Named("x"), Lit>>
    [] p = "?" -> <<Q>>
    [] p = "$1" -> <<Dollar(1)>>
    [] p = "$2" -> <<Dollar(2)>>

\* Blocks that are not well formed: no :id after the {{, no }}.
MalformedPieces == {"{{cond}}", "{{:x cond"}

RECURSIVE Flatten(_)
Flatten(ps) == IF ps = <<>> THEN <<>> ELSE Tokens(Head(ps)) \o Flatten(Tail(ps))

\* Parameter sources: a map (P), a struct, a bare value.  A value is a number;
\* 0 stands for a zero value (false, 0, "").
Map(key, v) == [k |-> "map", kv |-> (key :> v), v |-> 0]
Struct(field, v) == [k |-> "struct", kv |-> (field :> v), v |-> 0]
Scalar(v) == [k |-> "scalar", kv |-> <<>>, v |-> v]

\* A slice ([]string: "strings", []int and []int64: "ints", []byte: "bytes")
\* of n elements, and a time.Time; v stands for the value as a whole.
Slice(kind, n) == [k |-> kind, kv |-> [i \in 1..n |-> 10 + i], v |-> 100 + n]
Time == [k |-> "time", kv |-> <<>>, v |-> 2020]

\* A struct that implements sql.Scanner (sql.NullBool, sql.NullString).
Scanner == [k |-> "scanner", kv |-> <<>>, v |-> 9]
PositionalSources ==
  {Scalar(7), Time} \cup {Slice(kind, n) : kind \in {"strings", "ints", "bytes"}, n \in 1..MaxElems}

NamedSources ==
  {Map("x", 0), Map("x", 1), Map("y", 0), Map("y", 2), Struct("X", 0), Struct("X", 1)}
Sources == NamedSources \cup {Scalar(7)}

\* The name a struct field or map key is looked up by.
Lower(name) == CASE name = "X" -> "x" [] name = "Y" -> "y" [] OTHER -> name

\* The drivers (src/zdb.go:85-86) and their placeholder style.
DriverSQLite == 1
DriverPostgreSQL == 2
DriverMariaDB == 3
Drivers == {DriverSQLite, DriverPostgreSQL}

ErrMoreThanOnce == "more than once"
ErrMix == "mix named and positional"
ErrNotFound == "could not find"

NoRes == [done |-> FALSE, query |-> <<>>, args |-> <<>>, err |-> nil]

SeqsUpTo(S, n) == UNION {[1..k -> S] : k \in 0..n}

NoPrepare ==
  /\ pieces = <<>>
  /\ params = <<>>
  /\ driver = DriverSQLite
  /\ res = NoRes

\* The parameter extractor: the sources are taken in call order; a bare value
\* is a positional argument; the keys of a map and the fields of a struct are
\* merged, and one that is already there is an error.  Named and positional
\* together are an error.
RECURSIVE prepareParamsFrom(_, _, _, _, _)
prepareParamsFrom(ps, i, merged, pos, named) ==
  IF i > Len(ps)
  THEN IF named /\ pos # <<>>
       THEN [err |-> ErrMix, named |-> TRUE, merged |-> <<>>, pos |-> <<>>]
       ELSE [err |-> nil, named |-> named, merged |-> merged, pos |-> pos]
  ELSE IF ps[i].k \notin {"map", "struct"}
  THEN prepareParamsFrom(ps, i + 1, merged, Append(pos, ps[i].v), named)
  ELSE LET kv == ps[i].kv
           new == [key \in {Lower(f) : f \in DOMAIN kv} |->
                     kv[CHOOSE f \in DOMAIN kv : Lower(f) = key]]
       IN IF DOMAIN new \cap DOMAIN merged # {}
          THEN [err |-> ErrMoreThanOnce, named |-> TRUE, merged |-> <<>>, pos |-> <<>>]
          ELSE prepareParamsFrom(ps, i + 1, merged @@ new, pos, TRUE)

prepareParams(ps) == prepareParamsFrom(ps, 1, <<>>, <<>>, FALSE)

\* A value is true unless it is false or a zero value.
Truthy(v) == v # 0

\* The first }} of q from position i on (0: none).
RECURSIVE FindClose(_, _)
FindClose(q, i) ==
  IF i > Len(q) THEN 0 ELSE IF q[i] = Close THEN i ELSE FindClose(q, i + 1)

\* Conditional blocks, left to right: {{:id fragment}} becomes its fragment if
\* the value of id is true and nothing if not, {{:id! fragment}} the other way
\* round; an id that is not bound is an error; a {{ that starts no block, or a
\* block that is not closed, is left as it is.
RECURSIVE replaceConditionals(_, _, _)
replaceConditionals(q, i, b) ==
  IF i > Len(q) THEN [q |-> <<>>, err |-> nil]
  ELSE LET j == FindClose(q, i + 2)
           block == q[i] = Open /\ i + 1 <= Len(q) /\ q[i + 1].k = ":" /\ j # 0
       IN IF ~block
          THEN LET r == replaceConditionals(q, i + 1, b)
               IN [q |-> <<q[i]>> \o r.q, err |-> r.err]
          ELSE IF q[i + 1].id \notin DOMAIN b
          THEN [q |-> <<>>, err |-> ErrNotFound]
          ELSE LET neg == i + 2 < j /\ q[i + 2] = Bang
                   frag == SubSeq(q, IF neg THEN i + 3 ELSE i + 2, j - 1)
                   r == replaceConditionals(q, j + 1, b)
               IN [q |-> (IF Truthy(b[q[i + 1].id]) # neg THEN frag ELSE <<>>) \o r.q,
                   err |-> r.err]

\* Named placeholders, left to right: each becomes a ? and its value is
\* appended to the arguments; an id that is not bound is an error.
RECURSIVE bindNamed(_, _, _)
bindNamed(q, i, b) ==
  IF i > Len(q) THEN [q |-> <<>>, args |-> <<>>, err |-> nil]
  ELSE IF q[i].k = ":" /\ q[i].id \notin DOMAIN b
  THEN [q |-> <<>>, args |-> <<>>, err |-> ErrNotFound]
  ELSE LET r == bindNamed(q, i + 1, b)
       IN IF q[i].k = ":"
          THEN [q |-> <<Q>> \o r.q, args |-> <<b[q[i].id]>> \o r.args, err |-> r.err]
          ELSE [q |-> <<q[i]>> \o r.q, args |-> r.args, err |-> r.err]

\* Rebind: with the $n style the n-th ? becomes $n; with the ? style the
\* query stays as it is.
RECURSIVE rebindFrom(_, _, _)
rebindFrom(q, i, n) ==
  IF i > Len(q) THEN <<>>
  ELSE IF q[i] = Q THEN <<Dollar(n)>> \o rebindFrom(q, i + 1, n + 1)
  ELSE <<q[i]>> \o rebindFrom(q, i + 1, n)

RECURSIVE rebindAll(_, _, _)
rebindAll(q, i, n) ==
  IF i > Len(q) THEN <<>>
  ELSE IF q[i].k \in {"?", "$"} THEN <<Dollar(n)>> \o rebindAll(q, i + 1, n + 1)
  ELSE <<q[i]>> \o rebindAll(q, i + 1, n)

\* A rebinding that numbers every placeholder anew, the $n too.
RebindAll(d, q) == IF d = DriverPostgreSQL THEN rebindAll(q, 1, 1) ELSE q

Rebind(d, q) == IF d = DriverPostgreSQL THEN rebindFrom(q, 1, 1) ELSE q

Failed(err) == [query |-> <<>>, args |-> <<>>, err |-> err]

ErrBindVars == "number of bindVars"

\* The slices among the positional parameters: the n-th ? stands for the n-th
\* parameter; for a slice of strings it becomes one ? for each element, and
\* the elements become the arguments; a slice of ints is written into the
\* query and is no argument; anything else stays one ? and one argument.
\* Without a slice among the parameters nothing is looked at.
RECURSIVE expandFrom(_, _, _, _)
expandFrom(q, i, ps, a) ==
  IF i > Len(q)
  THEN [q |-> <<>>, args |-> <<>>, err |-> IF a <= Len(ps) THEN ErrBindVars ELSE nil]
  ELSE IF q[i] # Q
  THEN LET r == expandFrom(q, i + 1, ps, a)
       IN [q |-> <<q[i]>> \o r.q, args |-> r.args, err |-> r.err]
  ELSE IF a > Len(ps) THEN [q |-> <<>>, args |-> <<>>, err |-> ErrBindVars]
  ELSE LET r == expandFrom(q, i + 1, ps, a + 1)
           n == Len(ps[a].kv)
       IN CASE ps[a].k = "strings" ->
                 [q |-> [e \in 1..n |-> Q] \o r.q, args |-> ps[a].kv \o r.args, err |-> r.err]
            [] ps[a].k = "ints" ->
                 [q |-> [e \in 1..n |-> Num(ps[a].kv[e])] \o r.q, args |-> r.args, err |-> r.err]
            [] OTHER ->
                 [q |-> <<Q>> \o r.q, args |-> <<ps[a].v>> \o r.args, err |-> r.err]

\* An expansion that takes a slice of ints like a slice of strings.
expandInIntsAsArgs(q, ps) ==
  expandFrom(q, 1, [a \in 1..Len(ps) |->
                     IF ps[a].k = "ints" THEN [ps[a] EXCEPT !.k = "strings"]
                     ELSE ps[a]], 1)

expandIn(q, ps) ==
  IF \A a \in 1..Len(ps) : ps[a].k \notin {"strings", "ints"}
  THEN [q |-> q, args |-> [a \in 1..Len(ps) |-> ps[a].v], err |-> nil]
  ELSE expandFrom(q, 1, ps, 1)

\* A prepareImpl that looks up every :id of the template before it decides
\* the blocks.
prepareImplNamesFirst(d, query, ps) ==
  LET p == prepareParams(ps)
  IN IF p.err # nil THEN Failed(p.err)
     ELSE IF ~p.named
     THEN LET x == expandIn(query, ps)
          IN IF x.err # nil THEN Failed(x.err)
             ELSE [query |-> Rebind(d, x.q), args |-> x.args, err |-> nil]
     ELSE LET all == bindNamed(query, 1, p.merged)
              c == replaceConditionals(query, 1, p.merged)
              n == bindNamed(c.q, 1, p.merged)
          IN IF all.err # nil THEN Failed(all.err)
             ELSE IF c.err # nil THEN Failed(c.err)
             ELSE [query |-> Rebind(d, n.q), args |-> n.args, err |-> nil]

prepareImpl(d, query, ps) ==
  LET p == prepareParams(ps)
  IN IF p.err # nil THEN Failed(p.err)
     ELSE IF ~p.named
     THEN LET x == expandIn(query, ps)
          IN IF x.err # nil THEN Failed(x.err)
             ELSE [query |-> Rebind(d, x.q), args |-> x.args, err |-> nil]
     ELSE LET c == replaceConditionals(query, 1, p.merged)
              n == bindNamed(c.q, 1, p.merged)
          IN IF c.err # nil THEN Failed(c.err)
             ELSE IF n.err # nil THEN Failed(n.err)
             ELSE [query |-> Rebind(d, n.q), args |-> n.args, err |-> nil]

\* A Prepare that passes on the first parameter only.
PrepareFirstParam(query, ps) ==
  prepareImpl(driver, query, IF ps = <<>> THEN ps ELSE <<ps[1]>>)

\* A Prepare that passes on no parameters.
PrepareNoParams(query, ps) == prepareImpl(driver, query, <<>>)

\* Prepare: prepareImpl with the handle of the context, whose driver decides
\* the placeholder style.
Prepare(query, ps) == prepareImpl(driver, query, ps)

PrepareCall ==
  /\ ~res.done
  /\ LET r == Prepare(Flatten(pieces), params)
     IN res' = [done |-> TRUE, query |-> r.query, args |-> r.args, err |-> r.err]
  /\ UNCHANGED <<pieces, params, driver, txvars, envvars>>

(***************************************************************************)
(* The context.                                                            *)
(***************************************************************************)
\* GetDB: the handle a context carries.
GetDB(ctx) == ctxs[ctx]

\* A MustGetDB that takes the handle of the TX call in progress, whatever
\* context it is given: a registry of the transaction that is running.
MustGetDBRunning(ctx) == IF stack # <<>> THEN stack[Len(stack)].tx ELSE GetDB(ctx)

\* MustGetDB: the same; every context of the model carries a handle.
MustGetDB(ctx) == GetDB(ctx)

\* A WithDB that changes the context it was given instead of copying it.
WithDBInPlace(ctx, h) == [store |-> [ctxs EXCEPT ![ctx] = h], id |-> ctx]

\* WithDB returns a copy of the context with the handle: a new context, the
\* one it was given is left as it was.
WithDB(ctx, h) == [store |-> Append(ctxs, h), id |-> Len(ctxs) + 1]

(***************************************************************************)
(* Begin.                                                                  *)
(***************************************************************************)
\* beginImpl: a handle that is a transaction is returned as it is, with the
\* context it came on and ErrTransactionStarted; the base handle opens a
\* native transaction and puts its handle on a new context.  can: whether the
\* model still has a native transaction to open.
beginImpl(ctx, h) ==
  IF IsTX(h)
  THEN [ctx |-> ctx, tx |-> h, err |-> ErrTransactionStarted,
        ctxs |-> ctxs, txs |-> txs, can |-> TRUE]
  ELSE LET t == IF NumOpened < MaxTx THEN NumOpened + 1 ELSE MaxTx
           w == WithDB(ctx, t)
       IN [ctx |-> w.id, tx |-> t, err |-> nil, ctxs |-> w.store,
           txs |-> [txs EXCEPT ![t] = [NoTx EXCEPT !.status = "open"]],
           can |-> NumOpened < MaxTx]

\* A Begin that hands beginImpl the base handle, not the context's.
BeginOnBase(ctx) == beginImpl(ctx, BaseDB)

Begin(ctx) == beginImpl(ctx, MustGetDB(ctx))

\* The context of the running code: the base context at the top level, in a
\* callback the context it was called with.
Cur == IF stack = <<>> THEN BaseCtx ELSE stack[Len(stack)].txctx

\* The contexts the top level holds: the base context and those Begin returned.
Held ==
  {BaseCtx} \cup {c \in 1..Len(ctxs) : IsTX(ctxs[c]) /\ txs[ctxs[c]].openedAt = 0}

Opened(t) == IF t.status # "unused" THEN 1 ELSE 0

\* A caller (the top level, or the callback that is running) calls Begin.
BeginCall(ctx) ==
  /\ ctx \in 1..Len(ctxs)
  /\ LET b == Begin(ctx) IN
       /\ b.can
       /\ ctxs' = b.ctxs
       /\ txs' = b.txs
       /\ lastBegin' = [arg |-> ctx, ctx |-> b.ctx, tx |-> b.tx, err |-> b.err,
                        opened |-> Cardinality({t \in TxIds :
                                      Opened(b.txs[t]) > Opened(txs[t])})]
  /\ last' = NoCall
  /\ UNCHANGED <<table, stack, stmts, prepvars, envvars>>

(***************************************************************************)
(* The native transaction behind a zTX handle (database/sql's Tx): the     *)
(* first Commit or Rollback resolves it, a later one returns ErrTxDone and *)
(* does nothing.  A commit the engine refuses applies nothing and leaves   *)
(* the transaction resolved; so does a rollback that fails.  d is the depth *)
(* of the TX call that resolves (0: a direct call on the handle).          *)
(***************************************************************************)
txCommit(t, ok, d) ==
  IF txs[t].status # "open"
  THEN [txs |-> txs, table |-> table, err |-> ErrTxDone, nops |-> 0]
  ELSE IF ok
  THEN [txs |-> [txs EXCEPT ![t].status = "committed", ![t].how = "commit",
                            ![t].nres = @ + 1, ![t].resolvedAt = d],
        table |-> table \o txs[t].rows, err |-> nil, nops |-> 1]
  ELSE [txs |-> [txs EXCEPT ![t].status = "rolledback", ![t].how = "commitfail",
                            ![t].nres = @ + 1, ![t].resolvedAt = d],
        table |-> table, err |-> ErrCommit, nops |-> 1]

txRollback(t, ok, d) ==
  IF txs[t].status # "open"
  THEN [txs |-> txs, table |-> table, err |-> ErrTxDone, nops |-> 0]
  ELSE [txs |-> [txs EXCEPT ![t].status = "rolledback",
                            ![t].how = IF ok THEN "rollback" ELSE "rollbackfail",
                            ![t].nres = @ + 1, ![t].resolvedAt = d],
        table |-> table, err |-> IF ok THEN nil ELSE ErrRollback, nops |-> 1]

\* The owner of a transaction that Begin opened resolves it on the handle.
CommitCall(t) ==
  /\ t \in TxIds /\ txs[t].status # "unused" /\ txs[t].openedAt = 0
  /\ \E ok \in BOOLEAN :
       LET r == txCommit(t, ok, 0) IN txs' = r.txs /\ table' = r.table
  /\ last' = NoCall /\ lastBegin' = NoBegin
  /\ UNCHANGED <<ctxs, stack, stmts, prepvars, envvars>>

RollbackCall(t) ==
  /\ t \in TxIds /\ txs[t].status # "unused" /\ txs[t].openedAt = 0
  /\ LET r == txRollback(t, TRUE, 0) IN txs' = r.txs /\ table' = r.table
  /\ last' = NoCall /\ lastBegin' = NoBegin
  /\ UNCHANGED <<ctxs, stack, stmts, prepvars, envvars>>

(***************************************************************************)
(* Exec.  Statement r inserts row r.  On the base handle it is visible at  *)
(* once; on an open transaction it is pending until the commit; on a       *)
(* resolved transaction, and on a cancelled context, it fails and does     *)
(* nothing.                                                                *)
(***************************************************************************)
execImpl(ctx, h, r) ==
  IF ctx \in cancelled THEN [table |-> table, txs |-> txs, err |-> ErrCanceled]
  ELSE IF ~IsTX(h) THEN [table |-> Append(table, r), txs |-> txs, err |-> nil]
  ELSE IF txs[h].status = "open"
  THEN [table |-> table,
        txs |-> [txs EXCEPT ![h].rows = Append(@, r),
                            ![h].depths = @ \cup {Len(stack)}],
        err |-> nil]
  ELSE [table |-> table, txs |-> txs, err |-> ErrTxDone]

Exec(ctx, r) == execImpl(ctx, MustGetDB(ctx), r)

\* The outermost of the TX calls in progress that call d is nested in through
\* the contexts: each was called with the context its caller was given.
RECURSIVE Root(_)
Root(d) == IF d = 1 \/ stack[d].ctx # stack[d - 1].txctx THEN d ELSE Root(d - 1)

\* The transaction a statement on ctx is issued in: in a callback, on the
\* context the callback was given, that of the outermost TX call it is nested
\* in; else the one the context carries (0: none, the base handle).
Nest(ctx) ==
  IF stack # <<>> /\ ctx = Cur THEN stack[Root(Len(stack))].tx ELSE ctxs[ctx]

ExecCall(ctx) ==
  /\ ctx \in 1..Len(ctxs)
  /\ Len(stmts) < MaxRows
  /\ LET r == Len(stmts) + 1
         x == Exec(ctx, r)
     IN /\ table' = x.table
        /\ txs' = x.txs
        /\ stmts' = Append(stmts, Nest(ctx))
        /\ stack' = IF Len(stack) > 1 /\ ctx = Cur /\ x.err = nil
                    THEN [stack EXCEPT ![Len(stack)].ran = TRUE] ELSE stack
  /\ last' = NoCall /\ lastBegin' = NoBegin
  /\ UNCHANGED <<ctxs, prepvars, envvars>>

(***************************************************************************)
(* TX.  txImpl begins (or reuses) a transaction and calls fn with the      *)
(* context Begin returned; when fn returns, the call that opened the       *)
(* transaction commits (fn returned nil) or rolls back (fn returned an     *)
(* error); a call that reused a transaction only passes fn's error on.     *)
(***************************************************************************)
\* txImpl up to the call of fn: Begin on the handle, then the frame of the call.
txImplEnter(ctx, h) ==
  LET b == beginImpl(ctx, h)
      d == Len(stack) + 1
      own == b.err = nil
  IN /\ b.can
     /\ ctxs' = b.ctxs
     /\ txs' = IF own THEN [b.txs EXCEPT ![b.tx].openedAt = d] ELSE b.txs
     /\ stack' = Append(stack, [ctx |-> ctx, txctx |-> b.ctx, tx |-> b.tx,
                                owner |-> own, clean |-> TRUE, ran |-> FALSE])
     /\ last' = NoCall /\ lastBegin' = NoBegin
     /\ UNCHANGED <<table, stmts, prepvars, envvars>>

\* A TX that hands txImpl the base handle, not the context's.
TXOnBase(ctx) == txImplEnter(ctx, BaseDB)

TX(ctx) == txImplEnter(ctx, MustGetDB(ctx))

TXCall(ctx) ==
  /\ ctx \in 1..Len(ctxs)
  /\ Len(stack) < MaxDepth
  /\ TX(ctx)

\* A txImpl that wraps fn's error in one of its own.
txImplResultWrapped(owner, e, resolveErr) ==
  IF e # nil THEN "zdb.TX: wrapped" ELSE IF owner THEN resolveErr ELSE nil

\* A txImpl that does not look at what the commit returned.
txImplResultUnchecked(owner, e, resolveErr) == e

\* What txImpl returns: fn's error as it is; else, for the call that opened
\* the transaction, the outcome of the commit.
txImplResult(owner, e, resolveErr) ==
  IF e # nil THEN e ELSE IF owner THEN resolveErr ELSE nil

\* txImpl from the return of fn (with e) on; ok: whether the commit or the
\* rollback succeeds.
txImplReturn(e, ok) ==
  LET d == Len(stack)
      f == stack[d]
      r == IF ~f.owner THEN [txs |-> txs, table |-> table, err |-> nil, nops |-> 0]
           ELSE IF e = nil THEN txCommit(f.tx, ok, d)
           ELSE txRollback(f.tx, ok, d)
      ret == txImplResult(f.owner, e, r.err)
  IN /\ txs' = IF ~f.owner /\ f.ran /\ e # nil
               THEN [r.txs EXCEPT ![f.tx].failedRan = TRUE] ELSE r.txs
     /\ table' = r.table
     /\ last' = [depth |-> d, tx |-> f.tx, owner |-> f.owner, fnret |-> e,
                 ret |-> ret, clean |-> f.clean, nops |-> r.nops]
     /\ stack' = IF d = 1 THEN <<>>
                 ELSE [SubSeq(stack, 1, d - 1) EXCEPT
                         ![d - 1].clean = @ /\ f.clean /\ e = nil]
     /\ lastBegin' = NoBegin
     /\ UNCHANGED <<ctxs, stmts, prepvars, envvars>>

\* The running callback returns: nil, or an error (its own, or the one a
\* nested TX call gave it).
FnReturn(e) ==
  /\ stack # <<>>
  /\ e \in Errs \cup {nil}
  /\ \E ok \in BOOLEAN : txImplReturn(e, ok)

\* The same, with a rollback that succeeds.
FnReturnRolledBack(e) ==
  /\ stack # <<>>
  /\ e \in Errs \cup {nil}
  /\ \E ok \in BOOLEAN : txImplReturn(e, ok \/ e # nil)

(***************************************************************************)
(* Spec: nests of TX calls.  The running code (the top level on the base   *)
(* context, a callback on the context it was given) calls Exec and TX,     *)
(* a callback also calls Begin, and returns nil or an error.               *)
(***************************************************************************)
TxNext ==
  \/ stack # <<>> /\ BeginCall(Cur)
  \/ TXCall(Cur)
  \/ ExecCall(Cur)
  \/ \E e \in Errs \cup {nil} : FnReturn(e)

\* The state after Connect: nothing is open and Prepare is not being called.
Init == TxInit /\ NoPrepare

Spec == Init /\ [][TxNext]_vars

(***************************************************************************)
(* SpecBegin: the explicit API.  The top level calls Begin, runs           *)
(* statements and TX on the contexts it holds, and resolves the            *)
(* transactions it opened with Commit and Rollback on their handles; a     *)
(* callback runs statements on its context and returns.                    *)
(***************************************************************************)
BeginNext ==
  \/ \E c \in Held : stack = <<>> /\ BeginCall(c)
  \/ \E c \in Held : stack = <<>> /\ TXCall(c)
  \/ \E c \in Held : stack = <<>> /\ ExecCall(c)
  \/ stack # <<>> /\ ExecCall(Cur)
  \/ \E t \in TxIds : stack = <<>> /\ CommitCall(t)
  \/ \E t \in TxIds : stack = <<>> /\ RollbackCall(t)
  \/ \E e \in Errs \cup {nil} : FnReturnRolledBack(e)

SpecBegin == Init /\ [][BeginNext]_vars

(***************************************************************************)
(* SpecPool: concurrent operations on the shared pool.  The pool is        *)
(* database/sql's; what it does is taken from the shared-resource policy.  *)
(* Begin takes a connection from the pool for the transaction, which keeps *)
(* it until its commit or rollback completes; a statement on the base      *)
(* handle takes a connection while it is in flight.  holders: who holds    *)
(* the connection (t in TxIds: transaction t; MaxTx + j: the statement of  *)
(* operation j); ran: who ran a statement on it since it left the pool.    *)
(***************************************************************************)
OpId(j) == MaxTx + j

\* A pool that hands out any connection, held or not.
IdleOrHeld == Conns

\* The connections the pool can hand out: those nobody holds.
Idle == {c \in Conns : conns[c].owner = {}}

\* The connection the pool hands out: the first it can.
FirstIdle == CHOOSE c \in Idle : \A k \in Idle : c <= k

acquire(c, who) ==
  [conns EXCEPT ![c] = [owner |-> @.owner \cup {who},
                        ran |-> IF @.owner = {} THEN {} ELSE @.ran]]

release(who) ==
  [c \in Conns |-> IF conns[c].owner \subseteq {who} THEN IdleConn
                   ELSE [conns[c] EXCEPT !.owner = @ \ {who}]]

\* who runs a statement, on the connection it holds.
runOn(who) ==
  [c \in Conns |-> IF who \in conns[c].owner
                   THEN [conns[c] EXCEPT !.ran = @ \cup {who}] ELSE conns[c]]

\* The contexts that carry transaction t, and whether one was cancelled.
Cancelled(t) == \E c \in cancelled : ctxs[c] = t

\* A cancellation that rolls the transaction of the context back.
cancelResolves(c) ==
  [cancelled |-> cancelled \cup {c},
   txs |-> [txs EXCEPT ![ctxs[c]].status = "rolledback", ![ctxs[c]].how = "cancel"]]

\* Cancelling a context: the context is cancelled, and that is all.
cancel(c) == [cancelled |-> cancelled \cup {c}, txs |-> txs]

\* A base handle whose Commit and Rollback succeed and do nothing.
zDBResolveNil(op) == [txs |-> txs, table |-> table, err |-> nil, nops |-> 0]

\* Commit and Rollback of the base handle (zDB): always an error.
zDBResolve(op) == [txs |-> txs, table |-> table, err |-> ErrNotTx, nops |-> 0]

\* Commit of a handle.  A transaction whose context was cancelled is not
\* committed: the cancellation is what Commit returns.
Commit(h, ok) ==
  IF ~IsTX(h) THEN zDBResolve("commit")
  ELSE IF Cancelled(h) /\ txs[h].status = "open"
  THEN [txs |-> txs, table |-> table, err |-> ErrCanceled, nops |-> 0]
  ELSE txCommit(h, ok, 0)

\* Rollback of a handle.
Rollback(h, ok) ==
  IF ~IsTX(h) THEN zDBResolve("rollback") ELSE txRollback(h, ok, 0)

\* An operation begins a transaction on the base context, when the pool has a
\* connection for it.
PoolBegin ==
  /\ Idle # {}
  /\ LET b == Begin(BaseCtx)
         c == FirstIdle
     IN
       /\ b.can
       /\ ctxs' = b.ctxs
       /\ txs' = b.txs
       /\ conns' = acquire(c, b.tx)
  /\ lastResolve' = NoResolve
  /\ UNCHANGED <<table, stack, stmts, last, lastBegin, cancelled, prepvars, ver>>

\* The owner of a transaction runs a statement on its context, the first
\* of the transaction; the row it inserts is named after the transaction.
PoolExec(ctx) ==
  /\ ctx \in Held \ {BaseCtx}
  /\ txs[ctxs[ctx]].rows = <<>>
  /\ LET x == Exec(ctx, ctxs[ctx])
     IN /\ table' = x.table
        /\ txs' = x.txs
        /\ conns' = IF x.err = nil THEN runOn(ctxs[ctx]) ELSE conns
  /\ lastResolve' = NoResolve
  /\ UNCHANGED <<ctxs, stack, stmts, last, lastBegin, cancelled, prepvars, ver>>

\* The operations that have a statement in flight.
InFlight == {j \in Ops : \E k \in Conns : OpId(j) \in conns[k].owner}

\* Operation j submits a statement (a read) on the base handle: it is in
\* flight on a connection of the pool.
PoolStart(j) ==
  /\ j \in Ops /\ InFlight = 1..(j - 1)
  /\ Idle # {}
  /\ conns' = [acquire(FirstIdle, OpId(j)) EXCEPT
                ![FirstIdle].ran = @ \cup {OpId(j)}]
  /\ lastResolve' = NoResolve
  /\ UNCHANGED <<txvars, cancelled, prepvars, ver>>

\* The statement of operation j is done: its connection goes back to the pool.
PoolFinish(j) ==
  /\ j \in Ops /\ \E k \in Conns : OpId(j) \in conns[k].owner
  /\ conns' = release(OpId(j))
  /\ lastResolve' = NoResolve
  /\ UNCHANGED <<txvars, cancelled, prepvars, ver>>

\* Commit or Rollback on a handle: the base handle, or a transaction Begin
\* returned.  The connection of a transaction goes back to the pool when the
\* commit or the rollback has completed.
Resolvable == {BaseDB} \cup {t \in TxIds : txs[t].status # "unused"}

ResolveCall(h, op, r) ==
  /\ txs' = r.txs
  /\ table' = r.table
  /\ conns' = IF r.nops = 1 THEN release(h) ELSE conns
  /\ lastResolve' = [h |-> h, op |-> op, err |-> r.err,
                     same |-> r.txs = txs /\ r.table = table]
  /\ UNCHANGED <<ctxs, stack, stmts, last, lastBegin, cancelled, prepvars, ver>>

PoolCommit(h) ==
  /\ h \in Resolvable
  /\ ResolveCall(h, "commit", Commit(h, TRUE))

PoolRollback(h) ==
  /\ h \in Resolvable
  /\ ResolveCall(h, "rollback", Rollback(h, TRUE))

\* The context of an open transaction is cancelled.
CancelCall(c) ==
  /\ c \in Held \ ({BaseCtx} \cup cancelled)
  /\ txs[ctxs[c]].status = "open"
  /\ LET x == cancel(c) IN cancelled' = x.cancelled /\ txs' = x.txs
  /\ lastResolve' = NoResolve
  /\ UNCHANGED <<table, ctxs, stack, stmts, last, lastBegin, conns, prepvars, ver>>

PoolNext ==
  \/ PoolBegin
  \/ \E c \in 1..Len(ctxs) : PoolExec(c)
  \/ \E j \in Ops : PoolStart(j)
  \/ \E j \in Ops : PoolFinish(j)
  \/ \E h \in {BaseDB} \cup TxIds : PoolCommit(h)
  \/ \E h \in {BaseDB} \cup TxIds : PoolRollback(h)
  \/ \E c \in 1..Len(ctxs) : CancelCall(c)

SpecPool == Init /\ [][PoolNext]_vars

(***************************************************************************)
(* SpecScope: callbacks that do not keep to the context they were given.   *)
(* The running code calls TX and Exec on its own context or on the base    *)
(* context, which every callback can reach, and Begin on the base context. *)
(***************************************************************************)
ScopeNext ==
  \/ stack # <<>> /\ BeginCall(BaseCtx)
  \/ \E c \in {Cur, BaseCtx} : TXCall(c)
  \/ \E c \in {Cur, BaseCtx} : ExecCall(c)
  \/ \E e \in Errs \cup {nil} : FnReturnRolledBack(e)

SpecScope == Init /\ [][ScopeNext]_vars

(***************************************************************************)
(* Versions.  Version.AtLeast compares the dotted parts as numbers, from   *)
(* the left; a part that is missing counts as 0.  Connect asks the server  *)
(* for its version and refuses a server that is too old.                   *)
(***************************************************************************)
Part(v, i) == IF i <= Len(v) THEN v[i] ELSE 0

RECURSIVE atLeastFrom(_, _, _)
atLeastFrom(v, w, i) ==
  IF i > Len(v) /\ i > Len(w) THEN TRUE
  ELSE IF Part(v, i) > Part(w, i) THEN TRUE
  ELSE IF Part(v, i) < Part(w, i) THEN FALSE
  ELSE atLeastFrom(v, w, i + 1)

AtLeast(v, want) == atLeastFrom(v, want, 1)

ErrMariaDB == "zdb.Connect: zdb requires MariaDB 10.5.0 or newer"
ErrPostgreSQL == "zdb.Connect: zdb requires PostgreSQL 12.0 or newer"

\* A Connect that asks of PostgreSQL what it asks of MariaDB.
ConnectOneMinimum(d, v) ==
  IF d \in {DriverMariaDB, DriverPostgreSQL} /\ ~AtLeast(v, <<10, 5>>)
  THEN ErrMariaDB ELSE nil

\* Connect, the check of the version: the error it returns (nil: none).
Connect(d, v) ==
  CASE d = DriverSQLite -> nil
    [] d = DriverMariaDB -> IF ~AtLeast(v, <<10, 5>>) THEN ErrMariaDB ELSE nil
    [] d = DriverPostgreSQL -> IF ~AtLeast(v, <<12, 0>>) THEN ErrPostgreSQL ELSE nil

\* The versions: up to MaxParts parts, of the numbers the tests and Connect use.
Versions == UNION {[1..k -> {0, 1, 3, 4, 5, 10, 12, 35}] : k \in 1..MaxParts}
Wants == {<<4>>, <<4, 1, 0>>, <<3, 35, 1>>, <<10, 5>>, <<12, 0>>}

VersionInit ==
  /\ BaseInit
  /\ NoPrepare
  /\ \E h \in Versions, w \in Wants, d \in Drivers \cup {DriverMariaDB} :
       ver = [NoVersion EXCEPT !.have = h, !.want = w, !.driver = d]

AtLeastCall ==
  /\ ver.op = "none"
  /\ ver' = [ver EXCEPT !.op = "atLeast", !.atLeast = AtLeast(ver.have, ver.want)]
  /\ UNCHANGED <<txvars, prepvars, cancelled, conns, lastResolve>>

ConnectCall ==
  /\ ver.op = "none"
  /\ ver' = [ver EXCEPT !.op = "connect", !.err = Connect(ver.driver, ver.have)]
  /\ UNCHANGED <<txvars, prepvars, cancelled, conns, lastResolve>>

VersionNext == AtLeastCall \/ ConnectCall

SpecVersion == VersionInit /\ [][VersionNext]_vars

(***************************************************************************)
(* What can be seen of a transaction.                                      *)
(***************************************************************************)
\* The statements issued in transaction t, in the order they were submitted.
RowsOf(t) == SelectSeq([r \in 1..Len(stmts) |-> r], LAMBDA r : stmts[r] = t)

\* The rows of those statements visible through the base handle, in table order.
VisibleOf(t) == SelectSeq(table, LAMBDA r : stmts[r] = t)

\* The TX call that opened transaction t is still in progress.
Running(t) ==
  LET d == txs[t].openedAt
  IN d >= 1 /\ d <= Len(stack) /\ stack[d].tx = t /\ stack[d].owner

\* TX calls nested in the call that has just returned ran statements too.
NestedRan(t) == \E d \in txs[t].depths : d > 1

(***************************************************************************)
(* C1-C6: the transaction coordinator.                                     *)
(***************************************************************************)

\* C1: a transaction that a TX call opened is resolved by exactly one native
\* commit or rollback, performed by that call when its callback returns (none
\* while it runs); a TX call on a context that carries a transaction reuses
\* it, opens none, and performs no commit and no rollback.
C1_OneResolutionByOpener ==
  /\ \A t \in TxIds : txs[t].openedAt > 0 =>
       IF Running(t) THEN txs[t].nres = 0 /\ txs[t].status = "open"
       ELSE txs[t].nres = 1 /\ txs[t].resolvedAt = txs[t].openedAt
  /\ \A i \in 1..Len(stack) :
       IsTX(ctxs[stack[i].ctx]) =>
         ~stack[i].owner /\ stack[i].tx = ctxs[stack[i].ctx]
  /\ last.depth > 0 => last.nops = (IF last.owner THEN 1 ELSE 0)
  /\ last.depth = 1 => last.owner /\ txs[last.tx].nres = 1
  /\ last.depth > 1 => ~last.owner /\ last.tx = stack[1].tx

C1_Witness ==
  /\ last.depth = 1 /\ last.owner
  /\ txs[last.tx].nres = 1
  /\ NestedRan(last.tx)

\* C2: when the callback of the call that opened a transaction returns an
\* error, the transaction is rolled back, and no statement issued in a
\* rolled-back transaction, at whatever nesting level, is visible.
C2_ErrorLeavesNothing ==
  /\ (last.depth > 0 /\ last.owner /\ last.fnret # nil) =>
       /\ txs[last.tx].status = "rolledback"
       /\ txs[last.tx].how \in {"rollback", "rollbackfail"}
  /\ \A t \in TxIds : txs[t].status = "rolledback" => VisibleOf(t) = <<>>
  /\ \A t \in TxIds : Running(t) => VisibleOf(t) = <<>>

\* outer inserts A, inner inserts B, and the inner callback fails
C2_Witness ==
  /\ last.depth = 1 /\ last.owner /\ last.fnret # nil /\ ~last.clean
  /\ Len(RowsOf(last.tx)) >= 2 /\ NestedRan(last.tx) /\ 1 \in txs[last.tx].depths
  /\ txs[last.tx].status = "rolledback"

\* C3: Begin on a context that carries a transaction returns that context and
\* that handle with ErrTransactionStarted, and opens no native transaction.
C3_NestedBeginReuses ==
  (lastBegin.arg > 0 /\ lastBegin.arg # BaseCtx) =>
    /\ lastBegin.ctx = lastBegin.arg
    /\ lastBegin.tx = ctxs[lastBegin.arg]
    /\ IsTX(lastBegin.tx)
    /\ lastBegin.err = ErrTransactionStarted
    /\ lastBegin.opened = 0

C3_Witness ==
  /\ lastBegin.arg > 1 /\ lastBegin.err = ErrTransactionStarted
  /\ txs[lastBegin.tx].status = "open"

\* C4 as claimed: when the callback of the outermost TX call and those of all
\* nested calls return nil, the call returns nil and every statement of the
\* transaction is visible, in submission order.
C4_AsClaimed ==
  (last.depth = 1 /\ last.owner /\ last.clean /\ last.fnret = nil) =>
    /\ last.ret = nil
    /\ VisibleOf(last.tx) = RowsOf(last.tx)

\* C4 amended: in that case the call performs the native commit and no
\* rollback; if the engine accepts the commit the call returns nil and every
\* statement of the transaction is visible, in submission order; if it refuses
\* it, the call returns the commit's error and none is visible.  Rows of a
\* committed transaction stay visible in that order.
C4_CommitShowsAllInOrder ==
  /\ (last.depth = 1 /\ last.owner /\ last.clean /\ last.fnret = nil) =>
       /\ txs[last.tx].how \in {"commit", "commitfail"}
       /\ txs[last.tx].how = "commit" =>
            last.ret = nil /\ VisibleOf(last.tx) = RowsOf(last.tx)
       /\ txs[last.tx].how = "commitfail" =>
            last.ret = ErrCommit /\ VisibleOf(last.tx) = <<>>
  /\ \A t \in TxIds : txs[t].how = "commit" => VisibleOf(t) = RowsOf(t)

\* outer row, then inner row, all callbacks nil, commit accepted
C4_Witness ==
  /\ last.depth = 1 /\ last.owner /\ last.clean /\ last.fnret = nil
  /\ last.ret = nil
  /\ Len(RowsOf(last.tx)) >= 2 /\ NestedRan(last.tx) /\ 1 \in txs[last.tx].depths
  /\ VisibleOf(last.tx) = RowsOf(last.tx)

\* C5: a Begin that opens a transaction opens exactly one and returns a new
\* context that carries the returned handle; the context it was given is
\* another one and still carries the base handle.  The context of every
\* callback in progress carries the transaction handle of its TX call.
C5_BeginGivesNewContext ==
  /\ (lastBegin.arg > 0 /\ lastBegin.err = nil) =>
       /\ lastBegin.opened = 1
       /\ IsTX(lastBegin.tx) /\ txs[lastBegin.tx].status = "open"
       /\ ctxs[lastBegin.ctx] = lastBegin.tx
       /\ lastBegin.ctx # lastBegin.arg
       /\ ctxs[lastBegin.arg] = BaseDB
  /\ ctxs[BaseCtx] = BaseDB
  /\ \A i \in 1..Len(stack) :
       IsTX(ctxs[stack[i].txctx]) /\ ctxs[stack[i].txctx] = stack[i].tx

C5_Witness ==
  /\ lastBegin.arg = BaseCtx /\ lastBegin.err = nil /\ lastBegin.opened = 1
  /\ ctxs[lastBegin.ctx] = lastBegin.tx
  /\ \E t \in TxIds : txs[t].openedAt = 1

PrepareInit ==
  /\ TxInit
  /\ pieces \in SeqsUpTo(Pieces, MaxPieces)
  /\ params \in SeqsUpTo(NamedSources, MaxNamed)
  /\ driver \in Drivers
  /\ res = NoRes

SpecPrepare == PrepareInit /\ [][PrepareCall]_vars

ParamsInit ==
  /\ TxInit
  /\ pieces \in {<<p>> : p \in Pieces}
  /\ params \in SeqsUpTo(Sources, MaxParams)
  /\ driver \in Drivers
  /\ res = NoRes

SpecParams == ParamsInit /\ [][PrepareCall]_vars

\* What a call is about, said of its parameters and of the pieces of its
\* template.
IsNamed(s) == s.k \in {"map", "struct"}
Keys(s) == IF IsNamed(s) THEN {Lower(f) : f \in DOMAIN s.kv} ELSE {}
NamedMode == \E i \in 1..Len(params) : IsNamed(params[i])
HasScalar == \E i \in 1..Len(params) : ~IsNamed(params[i])
SameKeyTwice ==
  \E i, j \in 1..Len(params) : i < j /\ Keys(params[i]) \cap Keys(params[j]) # {}
BoundIds == UNION {Keys(params[i]) : i \in 1..Len(params)}
Bound(id) ==
  LET i == CHOOSE i \in 1..Len(params) : id \in Keys(params[i])
      f == CHOOSE f \in DOMAIN params[i].kv : Lower(f) = id
  IN params[i].kv[f]
FromStruct(id) ==
  \E i \in 1..Len(params) : params[i].k = "struct" /\ id \in Keys(params[i])

IsBlock(p) == p \in {"{{:x cond}}", "{{:x! cond}}", "{{:y :x}}"}
Control(p) == IF p = "{{:y :x}}" THEN "y" ELSE "x"
Negated(p) == p = "{{:x! cond}}"
Fragment(p) == IF p = "{{:y :x}}" THEN ":x" ELSE "cond"
Kept(p) == Truthy(Bound(Control(p))) # Negated(p)
IdOf(p) == IF p = ":x" THEN "x" ELSE IF p = ":y" THEN "y" ELSE ""
Blocks == {i \in 1..Len(pieces) : IsBlock(pieces[i])}

\* The template with every block decided: the pieces that stay.
RECURSIVE ResolvedFrom(_)
ResolvedFrom(ps) ==
  IF ps = <<>> THEN <<>>
  ELSE (IF ~IsBlock(Head(ps)) THEN <<Head(ps)>>
        ELSE IF Kept(Head(ps)) THEN <<Fragment(Head(ps))>> ELSE <<>>)
       \o ResolvedFrom(Tail(ps))
Resolved == ResolvedFrom(pieces)

Placeholder(n) == IF driver = DriverPostgreSQL THEN Dollar(n) ELSE Q
NthNamed(r, i) == Cardinality({j \in 1..i : IdOf(r[j]) # ""})

\* The query and arguments are the pieces r with each :id, left to right,
\* become the next placeholder, and its value the next argument.
Matches(r) ==
  /\ Len(res.query) = Len(r)
  /\ Len(res.args) = NthNamed(r, Len(r))
  /\ \A i \in 1..Len(r) :
       IF IdOf(r[i]) = "" THEN res.query[i] = Lit
       ELSE /\ res.query[i] = Placeholder(NthNamed(r, i))
            /\ res.args[NthNamed(r, i)] = Bound(IdOf(r[i]))

ControlsBound == \A i \in Blocks : Control(pieces[i]) \in BoundIds
AllBound(r) == \A i \in 1..Len(r) : IdOf(r[i]) \in BoundIds \cup {""}
NoQuery == res.query = <<>> /\ res.args = <<>>

C8_BlocksDecided ==
  res.done /\ NamedMode /\ ~SameKeyTwice /\ Blocks # {} /\ ControlsBound
    /\ AllBound(Resolved) =>
      res.err = nil /\ Matches(Resolved)

C8_Witness ==
  /\ res.done /\ res.err = nil
  /\ pieces = <<"{{:x! cond}}", "{{:y :x}}">>
  /\ FromStruct("x") /\ ~Truthy(Bound("x")) /\ Truthy(Bound("y"))
  /\ res.query = <<Lit, Placeholder(1)>> /\ res.args = <<0>>

\* C9: two sources of one call (map and map, map and struct, struct and
\* struct) that supply the same key give "more than once" and no query, also
\* when the key only controls a block.
C9_SameKeyIsAnError ==
  res.done /\ SameKeyTwice => res.err = ErrMoreThanOnce /\ NoQuery

C9_Witness ==
  /\ res.done /\ res.err = ErrMoreThanOnce
  /\ pieces = <<"{{:x cond}}">>
  /\ params = <<Map("x", 1), Struct("X", 0)>>

\* C10 as stated: a named source together with a bare value always gives "mix
\* named and positional" and no query.
C10_AsClaimed ==
  res.done /\ NamedMode /\ HasScalar => res.err = ErrMix /\ NoQuery

\* C10: a named source together with a bare value gives no query, in either
\* order: the error is "mix named and positional", unless two of the named
\* sources supply the same key, and then it is "more than once".
C10_MixIsAnError ==
  res.done /\ NamedMode /\ HasScalar =>
    /\ NoQuery
    /\ res.err = IF SameKeyTwice THEN ErrMoreThanOnce ELSE ErrMix

C10_Witness ==
  /\ res.done /\ res.err = ErrMix
  /\ Len(params) = 2 /\ ~IsNamed(params[1]) /\ IsNamed(params[2])

\* The placeholders that stay once every block is decided.
Remaining == SelectSeq(Resolved, LAMBDA p : IdOf(p) # "")

\* C11: blocks are decided before placeholders are bound: a :id that occurs
\* only in a block that is left out needs no binding, and gives no argument;
\* the arguments are the values of the placeholders that stay, in their order.
C11_SuppressedNeedsNoBinding ==
  res.done /\ NamedMode /\ ~SameKeyTwice /\ ControlsBound /\ AllBound(Resolved) =>
    /\ res.err = nil
    /\ res.args = [i \in 1..Len(Remaining) |-> Bound(IdOf(Remaining[i]))]

C11_Witness ==
  /\ res.done /\ res.err = nil
  /\ pieces = <<"{{:y :x}}", ":y">>
  /\ "x" \notin BoundIds /\ "y" \in BoundIds /\ ~Truthy(Bound("y"))
  /\ res.args = <<0>> /\ res.query = <<Placeholder(1)>>

(***************************************************************************)
(* Prepare on templates with malformed blocks: up to MaxPieces pieces, and *)
(* up to MaxNamed maps and bare values.                                    *)
(***************************************************************************)
MalformedInit ==
  /\ TxInit
  /\ pieces \in SeqsUpTo({"cond", ":x", "{{:x cond}}"} \cup MalformedPieces, MaxPieces)
  /\ params \in SeqsUpTo({Map("x", 0), Map("x", 1), Map("y", 2), Scalar(7)}, MaxNamed)
  /\ driver \in Drivers
  /\ res = NoRes

SpecMalformed == MalformedInit /\ [][PrepareCall]_vars

\* No }} follows a block that is not closed: every malformed piece of the
\* template is a malformed block of the query.
Separated ==
  \A i, j \in 1..Len(pieces) :
    i < j /\ pieces[i] = "{{:x cond" => pieces[j] \notin {"{{cond}}", "{{:x cond}}"}
HasMalformed == \E i \in 1..Len(pieces) : pieces[i] \in MalformedPieces

\* What is expected of a piece: the tokens that are copied, and the :id that
\* are bound.  verbatim: the :id of a block that is not closed is copied too.
Item(tok, bind) == [tok |-> tok, bind |-> bind]
Copied(toks) == [i \in 1..Len(toks) |-> Item(toks[i], FALSE)]
Items(p, verbatim) ==
  CASE p = ":x" -> <<Item(Named("x"), TRUE)>>
    [] p = "{{:x cond}}" -> IF Kept(p) THEN <<Item(Lit, FALSE)>> ELSE <<>>
    [] p = "{{:x cond" -> <<Item(Open, FALSE), Item(Named("x"), ~verbatim), Item(Lit, FALSE)>>
    [] OTHER -> Copied(Tokens(p))

RECURSIVE ItemsFrom(_, _)
ItemsFrom(ps, verbatim) ==
  IF ps = <<>> THEN <<>>
  ELSE Items(Head(ps), verbatim) \o ItemsFrom(Tail(ps), verbatim)

Expected(verbatim) ==
  IF NamedMode THEN ItemsFrom(pieces, verbatim) ELSE Copied(Flatten(pieces))
NthBound(its, i) == Cardinality({j \in 1..i : its[j].bind})
ItemsBound(its) == \A i \in 1..Len(its) : its[i].bind => its[i].tok.id \in BoundIds

\* The query and the arguments are what the items say.
Yields(its) ==
  /\ res.err = nil
  /\ Len(res.query) = Len(its)
  /\ \A i \in 1..Len(its) :
       res.query[i] = IF its[i].bind THEN Placeholder(NthBound(its, i)) ELSE its[i].tok
  /\ IF NamedMode
     THEN /\ Len(res.args) = NthBound(its, Len(its))
          /\ \A i \in 1..Len(its) :
               its[i].bind => res.args[NthBound(its, i)] = Bound(its[i].tok.id)
     ELSE res.args = [i \in 1..Len(params) |-> params[i].v]

MalformedCase ==
  /\ res.done /\ HasMalformed /\ Separated
  /\ ~SameKeyTwice /\ ~(NamedMode /\ HasScalar)
  /\ (NamedMode => ControlsBound)

InInit ==
  /\ TxInit
  /\ pieces \in SeqsUpTo({"cond", "?"}, MaxPieces)
  /\ params \in SeqsUpTo(PositionalSources, MaxArgs)
  /\ driver \in Drivers
  /\ res = NoRes

SpecIn == InInit /\ [][PrepareCall]_vars

NumQ == Cardinality({i \in 1..Len(pieces) : pieces[i] = "?"})

\* What a parameter gives: its arguments, and what stands for its ?.
\* expandInts: a slice of ints is taken like any other slice.
Expands(s, expandInts) == s.k = "strings" \/ (expandInts /\ s.k = "ints")
Given(s, expandInts) ==
  IF Expands(s, expandInts) THEN s.kv ELSE IF s.k = "ints" THEN <<>> ELSE <<s.v>>
Shown(s, expandInts) ==
  IF Expands(s, expandInts) THEN [e \in 1..Len(s.kv) |-> Q]
  ELSE IF s.k = "ints" THEN [e \in 1..Len(s.kv) |-> Num(s.kv[e])]
  ELSE <<Q>>

RECURSIVE ArgsBefore(_, _)
ArgsBefore(i, expandInts) ==
  IF i = 1 THEN 0
  ELSE ArgsBefore(i - 1, expandInts) + Len(Given(params[i - 1], expandInts))

RECURSIVE ShownFrom(_, _, _)
ShownFrom(ps, a, expandInts) ==
  IF ps = <<>> THEN <<>>
  ELSE IF Head(ps) = "?"
  THEN Shown(params[a], expandInts) \o ShownFrom(Tail(ps), a + 1, expandInts)
  ELSE Tokens(Head(ps)) \o ShownFrom(Tail(ps), a, expandInts)

Expanded(expandInts) ==
  LET exp == ShownFrom(pieces, 1, expandInts)
  IN /\ res.err = nil
     /\ Len(res.query) = Len(exp)
     /\ \A i \in 1..Len(exp) :
          res.query[i] = IF exp[i] = Q
                         THEN Placeholder(Cardinality({j \in 1..i : exp[j] = Q}))
                         ELSE exp[i]
     /\ Len(res.args) = ArgsBefore(Len(params) + 1, expandInts)
     /\ \A a \in 1..Len(params) :
          \A e \in 1..Len(Given(params[a], expandInts)) :
            res.args[ArgsBefore(a, expandInts) + e] = Given(params[a], expandInts)[e]

\* C13 as stated: a slice of N elements that is a positional parameter makes
\* its ? N placeholders, and its elements N arguments in the place of the
\* parameter; a byte slice and a time stay one argument.
C13_AsClaimed ==
  res.done /\ NumQ = Len(params) => Expanded(TRUE)

\* C13: a slice of N elements that is a positional parameter, other than a
\* slice of ints, makes its ? N placeholders, and its elements N arguments in
\* the place of the parameter; a slice of ints is written into the query
\* and gives no placeholder and no argument; a byte slice and a time stay one
\* argument.
C13_SliceExpanded ==
  res.done /\ NumQ = Len(params) => Expanded(FALSE)

C13_Witness ==
  /\ res.done /\ res.err = nil
  /\ pieces = <<"?", "?">>
  /\ params = <<Slice("bytes", 2), Slice("strings", 2)>>
  /\ res.query = <<Placeholder(1), Placeholder(2), Placeholder(3)>>
  /\ res.args = <<102, 11, 12>>

(***************************************************************************)
(* Prepare with named and positional placeholders in one template: up to   *)
(* MaxPieces pieces, and up to MaxArgs maps, values and slices.            *)
(***************************************************************************)
CountInit ==
  /\ TxInit
  /\ pieces \in SeqsUpTo({"cond", ":x", "?", "$1", "{{:x cond}}"}, MaxPieces)
  /\ params \in SeqsUpTo({Map("x", 0), Map("x", 1), Scalar(7)}
                           \cup {Slice(kind, n) : kind \in {"strings", "ints"},
                                                  n \in 1..MaxElems}, MaxArgs)
  /\ driver \in Drivers
  /\ res = NoRes

SpecCount == CountInit /\ [][PrepareCall]_vars

\* The placeholders of the returned query, the positional placeholders of
\* the template, the positional parameters of the call.
NumPlaceholders == Cardinality({i \in 1..Len(res.query) : res.query[i].k \in {"?", "$"}})
NumPositional == Cardinality({i \in 1..Len(pieces) : pieces[i] \in {"?", "$1"}})
NumPositionalParams == Cardinality({i \in 1..Len(params) : ~IsNamed(params[i])})

\* C14 as stated: a call that succeeds returns as many arguments as the
\* returned query has placeholders.
C14_AsClaimed ==
  res.done /\ res.err = nil => Len(res.args) = NumPlaceholders

\* C14: a call that succeeds returns as many arguments more than the returned
\* query has placeholders as it was given positional parameters more than the
\* template has positional placeholders: the two numbers are equal when the
\* call gives one positional parameter for each ? or $N of the template (none
\* in named mode), which Prepare does not check.
C14_CountsFollowTheCall ==
  res.done /\ res.err = nil =>
    Len(res.args) - NumPlaceholders = NumPositionalParams - NumPositional

C14_Witness ==
  /\ res.done /\ res.err = nil
  /\ pieces = <<"?", "?">>
  /\ params = <<Scalar(7), Slice("strings", 2)>>
  /\ Len(res.args) = 3 /\ NumPlaceholders = 3

\* C15: a template with a :id placeholder and a ? or $N placeholder gives an
\* error and no query.
C15_AsClaimed ==
  res.done /\ NumPositional > 0 /\ (\E i \in 1..Len(pieces) : pieces[i] = ":x") =>
    res.err # nil /\ NoQuery

(***************************************************************************)
(* C16-C20: the transaction coordinator, continued.                        *)
(***************************************************************************)
WasResolved(t) == txs[t].nres >= 1
Fresh(t) == t \in TxIds /\ txs[t].status = "open" /\ txs[t].nres = 0

\* C16: once a transaction is resolved, Begin and TX on the base context
\* open a new native transaction: no ErrTransactionStarted, and not the
\* handle that was resolved.
C16_IdleAgain ==
  (\E t \in TxIds : WasResolved(t)) =>
    /\ lastBegin.arg = BaseCtx =>
         lastBegin.err = nil /\ lastBegin.opened = 1 /\ Fresh(lastBegin.tx)
    /\ stack # <<>> /\ stack[1].ctx = BaseCtx =>
         stack[1].owner /\ Fresh(stack[1].tx)

C16_Witness ==
  /\ \E t \in TxIds : WasResolved(t) /\ txs[t].openedAt = 1 /\ txs[t].resolvedAt = 1
  /\ lastBegin.arg = BaseCtx /\ lastBegin.err = nil /\ Fresh(lastBegin.tx)

\* The outermost TX call has just returned, and its commit or rollback failed.
ResolutionFailed ==
  /\ last.depth = 1 /\ last.owner
  /\ txs[last.tx].how \in {"commitfail", "rollbackfail"}

Holds(t) == {c \in Conns : t \in conns[c].owner}

C20_NotATransaction ==
  lastResolve.op # "none" /\ ~IsTX(lastResolve.h) =>
    lastResolve.err # nil /\ lastResolve.same

C20_Witness ==
  /\ lastResolve.h = BaseDB /\ lastResolve.op = "rollback"
  /\ lastResolve.err = ErrNotTx /\ lastResolve.same
  /\ table # <<>>
  /\ \E t \in TxIds : txs[t].status = "open" /\ txs[t].rows # <<>>

(***************************************************************************)
(* C21: rebinding.  SpecRebind: Prepare on templates of text, ? and $n,    *)
(* with bare values as parameters, for both drivers.                       *)
(***************************************************************************)
RebindInit ==
  /\ TxInit
  /\ pieces \in SeqsUpTo({"cond", "?", "$1", "$2"}, MaxPieces)
  /\ params \in SeqsUpTo({Scalar(7), Scalar(8)}, MaxArgs)
  /\ driver \in Drivers
  /\ res = NoRes

SpecRebind == RebindInit /\ [][PrepareCall]_vars

\* The query is in the placeholder syntax of the driver: $n for PostgreSQL,
\* ? for SQLite.
Native(d, q) ==
  \A i \in 1..Len(q) : q[i].k # (IF d = DriverPostgreSQL THEN "?" ELSE "$")

\* C21: a query that is in the native placeholder syntax of the driver comes
\* back from Prepare as it is, with the arguments as they were given; and
\* rebinding what Prepare returned (rebinding a second time) changes nothing.
C21_RebindIsIdentityOnNative ==
  res.done /\ res.err = nil =>
    /\ Native(driver, Flatten(pieces)) =>
         /\ res.query = Flatten(pieces)
         /\ res.args = [i \in 1..Len(params) |-> params[i].v]
    /\ Rebind(driver, res.query) = res.query

C21_Witness ==
  /\ res.done /\ res.err = nil
  /\ driver = DriverPostgreSQL
  /\ pieces = <<"$1", "$2">>
  /\ params = <<Scalar(7), Scalar(8)>>
  /\ res.query = <<Dollar(1), Dollar(2)>>
  /\ res.args = <<7, 8>>

(***************************************************************************)
(* C22: versions.                                                          *)
(***************************************************************************)
\* The version as one number: its first n parts as digits to the base 100,
\* which is more than any part.
RECURSIVE Val(_, _)
Val(v, n) == IF n = 0 THEN 0 ELSE Val(v, n - 1) * 100 + Part(v, n)

Older(v, w) ==
  LET n == IF Len(v) > Len(w) THEN Len(v) ELSE Len(w)
  IN Val(v, n) < Val(w, n)

ModeInit ==
  /\ TxInit
  /\ pieces \in SeqsUpTo({"cond", ":x", "{{:x cond}}", "?"}, MaxPieces)
  /\ params \in SeqsUpTo({Map("x", 1), Struct("X", 0), Scalar(7), Time, Scanner,
                          Slice("bytes", 1)}
                           \cup {Slice("strings", n) : n \in 1..MaxElems}, MaxArgs)
  /\ driver \in Drivers
  /\ res = NoRes

SpecMode == ModeInit /\ [][PrepareCall]_vars

\* What shows that Prepare took the parameters as named: an error of the
\* extractor or of the lookup, or a query with no :id and no block left.
NamedChosen ==
  \/ res.err \in {ErrMoreThanOnce, ErrMix, ErrNotFound}
  \/ /\ res.err = nil
     /\ \A i \in 1..Len(res.query) : res.query[i].k \notin {":", "{{", "}}"}

\* The template but for the placeholders, and the query likewise.
Text(q) == SelectSeq(q, LAMBDA t : t.k \notin {"?", "$"})

\* The template comes back with its blocks and :id as they are, and the
\* arguments are the parameters, in call order.
PassedThrough ==
  /\ res.err = nil
  /\ res.query = Rebind(driver, Flatten(pieces))
  /\ res.args = [i \in 1..Len(params) |-> params[i].v]

RECURSIVE Concat(_)
Concat(ss) == IF ss = <<>> THEN <<>> ELSE Head(ss) \o Concat(Tail(ss))

IsInts(s) == s.k = "ints"

\* The arguments the parameters other than slices of ints give, in call order.
OtherArgs ==
  LET others == SelectSeq(params, LAMBDA s : ~IsInts(s))
  IN Concat([i \in 1..Len(others) |-> Given(others[i], FALSE)])

\* C25: a slice of ints bound to a ? is written into the query as the list of
\* its elements where the ? was, and is no argument; the arguments of the
\* other parameters stay in call order, and their ? stay placeholders.
C25_IntsInlined ==
  (res.done /\ NumQ = Len(params) /\ \E a \in 1..Len(params) : IsInts(params[a])) =>
    LET exp == ShownFrom(pieces, 1, FALSE)
    IN /\ res.err = nil
       /\ Len(res.query) = Len(exp)
       /\ \A i \in 1..Len(exp) :
            IF exp[i].k = "number" THEN res.query[i] = exp[i]
            ELSE IF exp[i] = Q THEN res.query[i].k \in {"?", "$"}
            ELSE res.query[i] = exp[i]
       /\ res.args = OtherArgs
       /\ Cardinality({i \in 1..Len(res.query) : res.query[i].k \in {"?", "$"}})
            = Len(res.args)

C25_Witness ==
  /\ res.done /\ res.err = nil
  /\ driver = DriverSQLite
  /\ pieces = <<"?", "?">>
  /\ params = <<Slice("ints", 2), Scalar(7)>>
  /\ res.query = <<Num(11), Num(12), Q>>
  /\ res.args = <<7>>

(***************************************************************************)
(* C23, C26, C27: the transaction coordinator, once more.                  *)
(***************************************************************************)
\* C23: whether Begin takes a call as nested depends on the handle of the
\* context alone: on a context that carries a transaction, resolved or not,
\* it returns that context and that handle with ErrTransactionStarted and
\* opens nothing; a transaction that was rolled back stays rolled back.
C23_HandleDecides ==
  lastBegin.arg > 0 =>
    /\ lastBegin.err = ErrTransactionStarted <=> IsTX(ctxs[lastBegin.arg])
    /\ (IsTX(ctxs[lastBegin.arg]) /\ txs[ctxs[lastBegin.arg]].status # "open") =>
         /\ lastBegin.ctx = lastBegin.arg
         /\ lastBegin.tx = ctxs[lastBegin.arg]
         /\ lastBegin.opened = 0
         /\ txs[lastBegin.tx].nres = 1

C23_Witness ==
  /\ lastBegin.arg > 1 /\ lastBegin.err = ErrTransactionStarted
  /\ lastBegin.ctx = lastBegin.arg
  /\ txs[lastBegin.tx].status = "rolledback" /\ txs[lastBegin.tx].how = "rollback"
  /\ txs[lastBegin.tx].openedAt = 0

\* The rows in the table.
InTable == {table[i] : i \in 1..Len(table)}

\* C26: a TX or a Begin on the base context opens a native transaction of
\* its own, whatever transactions are running, and never gives
\* ErrTransactionStarted; resolving it leaves the transactions of the calls
\* it is nested in open; a committed transaction shows its statements and a
\* rolled-back one none, whatever became of the others; and a statement on
\* the base context is visible whatever becomes of the transactions.
C26_ReuseOnlyByContext ==
  /\ \A i \in 1..Len(stack) :
       /\ stack[i].ctx = BaseCtx =>
            /\ stack[i].owner
            /\ txs[stack[i].tx].openedAt = i
            /\ \A j \in 1..(i - 1) : stack[j].tx # stack[i].tx
       /\ stack[i].owner =>
            txs[stack[i].tx].status = "open" /\ txs[stack[i].tx].nres = 0
  /\ lastBegin.arg = BaseCtx =>
       /\ lastBegin.err = nil /\ lastBegin.opened = 1
       /\ \A j \in 1..Len(stack) : stack[j].tx # lastBegin.tx
  /\ \A r \in 1..Len(stmts) : stmts[r] = 0 => r \in InTable
  /\ \A t \in TxIds :
       /\ txs[t].how = "commit" => VisibleOf(t) = RowsOf(t)
       /\ txs[t].status = "rolledback" => VisibleOf(t) = <<>>

C26_Witness ==
  /\ last.depth = 1 /\ last.owner /\ last.fnret # nil
  /\ txs[last.tx].status = "rolledback" /\ RowsOf(last.tx) # <<>>
  /\ \E t \in TxIds :
       /\ txs[t].openedAt = 2 /\ txs[t].how = "commit"
       /\ VisibleOf(t) # <<>>

\* C27: no savepoints.  When a nested callback returned an error and the
\* callback of the outermost call returns nil all the same, the outermost
\* call commits, and when the commit succeeds every statement of the
\* transaction is visible, those of the nested call that failed too.
C27_NoSavepoint ==
  (last.depth = 1 /\ last.owner /\ last.fnret = nil /\ ~last.clean) =>
    /\ last.nops = 1
    /\ txs[last.tx].how \in {"commit", "commitfail"}
    /\ txs[last.tx].how = "commit" =>
         /\ last.ret = nil
         /\ txs[last.tx].status = "committed"
         /\ VisibleOf(last.tx) = RowsOf(last.tx)

C27_Witness ==
  /\ last.depth = 1 /\ last.owner /\ last.fnret = nil /\ ~last.clean
  /\ txs[last.tx].failedRan
  /\ txs[last.tx].how = "commit"
  /\ txs[last.tx].depths = {1, 2}
  /\ Len(RowsOf(last.tx)) = 2 /\ VisibleOf(last.tx) = RowsOf(last.tx)

====
